---- MODULE Spec2Model ----
(***************************************************************************)
(* Model of main.py: the CosmosDBMCPServer object, its lazily initialized  *)
(* connector (cosmos_client / database / container), the stdio handlers    *)
(* registered on self.server, the HTTP routes registered on self.app, and  *)
(* run().  Every handler is a coroutine; a model step runs one coroutine   *)
(* from one suspension point (an await that really suspends) to the next,  *)
(* which is the atomicity asyncio's cooperative scheduling gives.          *)
(***************************************************************************)
EXTENDS Integers, FiniteSets, Sequences, TLC

\* ------------------------------------------------------------------ bounds
\* Number of request slots: requests that may be in flight at the same time.
MaxInFlight == 2
\* Number of requests of the full workload (every tool, every argument
\* combination, every URI) that may overlap.
MaxOverlap == 1
\* Number of distinct document ids.
MaxDocs == 1
\* Cap on the number of CosmosClient objects ever constructed.
MaxClients == 3

\* ------------------------------------------------------------ value domains
None == 0
Absent == "<absent>"
ReqIds == 1..MaxInFlight
DocIds == 1..MaxDocs
PartitionKeys == {"pk"}

ConfigFields == {"endpoint", "key", "database_name", "container_name"}

\* os.getenv(NAME, ""): every required setting is either "" or a value.
_load_config == [ConfigFields -> {"", "value"}]

\* The handlers and routes never read self.config (only run() and the
\* CosmosClient constructor do), so for a host that does not call run()
\* the two extreme configurations stand for all sixteen.
EmbeddedConfigs == {[f \in ConfigFields |-> v] : v \in {"", "value"}}

\* Fault injection for C9: a validation that forgets container_name.
ConfigValidOneMissing(cfg) ==
    cfg["endpoint"] # "" /\ cfg["key"] # "" /\ cfg["database_name"] # ""

\* run(): all([endpoint, key, database_name, container_name])
ConfigValid(cfg) ==
    \A f \in ConfigFields : cfg[f] # ""

\* The arguments dict of a tool call: the keys the tools look at.
NoArgs == [query |-> Absent, document_id |-> 0, partition_key |-> Absent]

ToolInputs ==
    {[op |-> "call_tool", name |-> "query_documents",
      args |-> [NoArgs EXCEPT !.query = q]] : q \in {Absent, "SELECT"}}
    \cup
    {[op |-> "call_tool", name |-> "read_document",
      args |-> [NoArgs EXCEPT !.document_id = d, !.partition_key = p]] :
        d \in 0..MaxDocs, p \in {Absent} \cup PartitionKeys}
    \cup
    {[op |-> "call_tool", name |-> "delete_document",
      args |-> [NoArgs EXCEPT !.document_id = d, !.partition_key = p]] :
        d \in DocIds, p \in PartitionKeys}
    \cup
    {[op |-> "call_tool", name |-> n, args |-> NoArgs] :
        n \in {"get_container_statistics", "no_such_tool"}}

\* stdio: read_resource(uri) gets the URI; HTTP: GET /mcp/resources/{path}.
StdioUris == {"cosmosdb://database", "cosmosdb://container",
              "cosmosdb://documents", "cosmosdb://databases"}
HttpPaths == {"database", "container", "documents", "databases"}

Inputs(via) ==
    ToolInputs
    \cup
    {[op |-> "read_resource", name |-> u, args |-> NoArgs] :
        u \in IF via = "stdio" THEN StdioUris ELSE HttpPaths}
    \cup
    (IF via = "http"
     THEN {[op |-> "health", name |-> "/health", args |-> NoArgs]}
     ELSE {})
    \cup
    {[op |-> "list_tools", name |-> "list_tools", args |-> NoArgs]}

\* A call_tool, a read_resource and a /health request: one request for
\* each place that performs the lazy initialization.
ConnectorInputs(via) ==
    {in \in Inputs(via) :
        \/ in.name = "query_documents" /\ in.args.query # Absent
        \/ in.name \in {"get_container_statistics",
                        "cosmosdb://database", "database", "/health"}}

NoResp == [shape |-> "none", status |-> 0, exc |-> "None", payload |-> "none"]

IdleReq ==
    [pc |-> "idle", via |-> "none", op |-> "none", name |-> "",
     args |-> NoArgs, body |-> "json", sawUnset |-> FALSE, built |-> FALSE,
     initFault |-> "none", fault |-> "none", issued |-> {},
     afterDelete |-> FALSE, catalog |-> <<>>, resp |-> NoResp]

\* ------------------------------------------------------------------- state
VARIABLES
    host,           \* "main": main() calls run(); "embedded": self.server /
                    \* self.app are driven by a host without run()
    config,         \* self.config
    cosmos_client,  \* self.cosmos_client: None or the id of a client object
    database,       \* self.database: None or the client it was derived from
    container,      \* self.container: None or the client it was derived from
    clients,        \* number of CosmosClient objects constructed so far
    verified,       \* some `await self.database.read()` of the
                    \* initialization has completed successfully
    runPc,          \* position of run()
    runBuilt,       \* number of clients constructed by run()
    docs,           \* documents in the container (owned by the database)
    deleteDone,     \* (id, partition key) pairs for which a delete_document
                    \* tool call got to the dispatcher and has returned
    req             \* the in-flight requests, one coroutine each

vars == <<host, config, cosmos_client, database, container, clients,
          verified, runPc, runBuilt, docs, deleteDone, req>>

handles == <<cosmos_client, database, container>>

Init ==
    /\ host \in {"main", "embedded"}
    /\ config \in IF host = "main" THEN _load_config ELSE EmbeddedConfigs
    /\ cosmos_client = None
    /\ database = None
    /\ container = None
    /\ clients = 0
    /\ verified = FALSE
    /\ runPc = "idle"
    /\ runBuilt = 0
    /\ docs \in SUBSET (DocIds \X PartitionKeys)
    /\ deleteDone = {}
    /\ req = [i \in ReqIds |-> IdleReq]

\* ---------------------------------------------------------------- catalogs
\* handle_list_resources / GET /mcp/resources: the URIs of the catalog
handle_list_resources ==
    <<"cosmosdb://database", "cosmosdb://container", "cosmosdb://documents">>

list_resources ==
    <<"cosmosdb://database", "cosmosdb://container", "cosmosdb://documents">>

\* handle_list_tools / GET /mcp/tools: the names of the catalog
handle_list_tools ==
    <<"query_documents", "read_document", "get_container_statistics">>

\* Fault injection for C12: an HTTP catalog that lost read_document.
list_tools_without_read_document ==
    <<"query_documents", "get_container_statistics">>

list_tools ==
    <<"query_documents", "read_document", "get_container_statistics">>

Range(seq) == {seq[k] : k \in 1..Len(seq)}

ToolCatalog(via) ==
    IF via = "stdio" THEN Range(handle_list_tools) ELSE Range(list_tools)

ResourceCatalog(via) ==
    IF via = "stdio" THEN Range(handle_list_resources)
    ELSE Range(list_resources)

\* ------------------------------------------------------ transport wrappers
\* `stage` says where an exception was raised: "body" (request.json()),
\* "init" (the lazy `await self._initialize_cosmos_client()`), or "dispatch"
\* (inside the tool / resource branch).

MkResp(shape, status, exc, payload) ==
    [shape |-> shape, status |-> status, exc |-> exc, payload |-> payload]

\* handle_call_tool: the lazy initialization runs before the try block.
handle_call_tool_response(stage, exc, payload) ==
    IF exc = "None" THEN MkResp("ok", 0, "None", payload)
    ELSE IF stage = "dispatch" THEN MkResp("error", 0, exc, "error_text")
    ELSE MkResp("raised", 0, exc, "none")

\* Fault injection for C8: the error body without status_code=500.
call_tool_response_always_200(stage, exc, payload) ==
    IF exc = "None" THEN MkResp("ok", 200, "None", payload)
    ELSE MkResp("error", 200, exc, "error")

\* POST /mcp/tools/{tool_name}: the whole body of the route is in the try.
call_tool_response(stage, exc, payload) ==
    IF exc = "None" THEN MkResp("ok", 200, "None", payload)
    ELSE MkResp("error", 500, exc, "error")

\* handle_read_resource has no try block at all.
handle_read_resource_response(stage, exc, payload) ==
    IF exc = "None" THEN MkResp("ok", 0, "None", payload)
    ELSE MkResp("raised", 0, exc, "none")

\* GET /mcp/resources/{resource_path:path}
read_resource_response(stage, exc, payload) ==
    IF exc = "None" THEN MkResp("ok", 200, "None", payload)
    ELSE MkResp("error", 500, exc, "error")

\* GET /health answers 200 either way.
health_check_response(stage, exc, payload) ==
    IF exc = "None" THEN MkResp("ok", 200, "None", "healthy")
    ELSE MkResp("error", 200, exc, "unhealthy")

\* handle_list_tools returns the list; GET /mcp/tools wraps it in
\* {"tools": [...]} (status 200).  Neither can raise.
list_tools_response(via) ==
    MkResp("ok", IF via = "http" THEN 200 ELSE 0, "None", "tools")

Response(via, op, stage, exc, payload) ==
    CASE op = "call_tool" /\ via = "stdio" ->
            handle_call_tool_response(stage, exc, payload)
      [] op = "call_tool" /\ via = "http" ->
            call_tool_response(stage, exc, payload)
      [] op = "read_resource" /\ via = "stdio" ->
            handle_read_resource_response(stage, exc, payload)
      [] op = "read_resource" /\ via = "http" ->
            read_resource_response(stage, exc, payload)
      [] op = "list_tools" -> list_tools_response(via)
      [] OTHER -> health_check_response(stage, exc, payload)

\* The coroutine ends with an exception of class `exc`.
Fail(r, stage, exc, fault) ==
    [r EXCEPT !.pc = "done", !.fault = fault,
              !.resp = Response(r.via, r.op, stage, exc, "error")]

\* The coroutine returns `payload`.
Succeed(r, payload) ==
    [r EXCEPT !.pc = "done",
              !.resp = Response(r.via, r.op, "dispatch", "None", payload)]

\* The coroutine suspends in a database call made through a handle.
Await(r, call) ==
    [r EXCEPT !.pc = "op1", !.issued = @ \cup {call}]

\* ------------------------------------------------------------- the tools
\* _query_documents, up to its first await
_query_documents(r, cont) ==
    IF cont = None THEN Fail(r, "dispatch", "RuntimeError", "not_initialized")
    ELSE IF r.args.query = Absent
         THEN Fail(r, "dispatch", "KeyError", "missing_arg")
         ELSE Await(r, "query_items")

\* _read_document, up to its first await
_read_document(r, cont) ==
    IF cont = None THEN Fail(r, "dispatch", "RuntimeError", "not_initialized")
    ELSE IF r.args.document_id = 0
         THEN Fail(r, "dispatch", "KeyError", "missing_arg")
    ELSE IF r.args.partition_key = Absent
         THEN Fail(r, "dispatch", "KeyError", "missing_arg")
    ELSE [Await(r, "read_item") EXCEPT !.afterDelete =
             <<r.args.document_id, r.args.partition_key>> \in deleteDone]

\* _get_container_statistics, up to its first await (the container check
\* is outside the try block)
_get_container_statistics(r, cont) ==
    IF cont = None THEN Fail(r, "dispatch", "RuntimeError", "not_initialized")
    ELSE Await(r, "container.read")

\* Fault injection for C2: _get_container_statistics without its own
\* `except Exception`.
StatsOnFailurePropagates(r) ==
    Fail(r, "dispatch", "CosmosHttpResponseError", "db")

\* _get_container_statistics: `except Exception` returns {"error": ...}
StatsOnFailure(r) ==
    [Succeed(r, "stats_error") EXCEPT !.fault = "db"]

\* The names the if/elif chains of the two dispatchers accept.
handle_call_tool_names ==
    {"query_documents", "read_document", "get_container_statistics"}

call_tool_names ==
    {"query_documents", "read_document", "get_container_statistics"}

Accepted(via) ==
    IF via = "stdio" THEN handle_call_tool_names ELSE call_tool_names

\* the if/elif chain of handle_call_tool and of call_tool
DispatchTool(r, cont) ==
    IF r.name \notin Accepted(r.via)
    THEN Fail(r, "dispatch", "ValueError", "unknown_tool")
    ELSE CASE r.name = "query_documents" -> _query_documents(r, cont)
           [] r.name = "read_document" -> _read_document(r, cont)
           [] OTHER -> _get_container_statistics(r, cont)

\* --------------------------------------------------------- the resources
\* stdio: str(uri); HTTP: f"cosmosdb://{resource_path}"
UriStr(r) ==
    IF r.via = "stdio" THEN r.name ELSE "cosmosdb://" \o r.name

\* Fault injection for C7: a match that also takes "cosmosdb://databases".
ResolveUriPrefix(uri) ==
    CASE uri \in {"cosmosdb://database", "cosmosdb://databases"} ->
            "database.read"
      [] uri = "cosmosdb://container" -> "container.read"
      [] uri = "cosmosdb://documents" -> "query_items"
      [] OTHER -> ""

\* which call a URI resolves to ("" when the URI is not recognized)
ResolveUri(uri) ==
    CASE uri = "cosmosdb://database" -> "database.read"
      [] uri = "cosmosdb://container" -> "container.read"
      [] uri = "cosmosdb://documents" -> "query_items"
      [] OTHER -> ""

\* handle_read_resource / read_resource after the lazy initialization
ReadResourceBegin(r, db, cont) ==
    IF db = None \/ cont = None
    THEN Fail(r, "dispatch", "RuntimeError", "not_initialized")
    ELSE IF ResolveUri(UriStr(r)) = ""
         THEN Fail(r, "dispatch", "ValueError", "unknown_uri")
         ELSE Await(r, ResolveUri(UriStr(r)))

\* health_check after the lazy initialization: `if self.database:`
HealthBegin(r, db) ==
    IF db # None THEN Await(r, "database.read") ELSE Succeed(r, "healthy")

\* What a handler does once the lazy initialization is behind it.
Begin(r) ==
    CASE r.op = "call_tool" -> DispatchTool(r, container)
      [] r.op = "read_resource" -> ReadResourceBegin(r, database, container)
      [] OTHER -> HealthBegin(r, database)

\* ------------------------------------------------------------ the connector
\* Fault injection for C4: initialization without looking at the handle.
NeedsInitAlways(client) == TRUE

\* `if not self.cosmos_client:` in the handlers, the routes and /health
NeedsInit(client) == client = None

\* Fault injection for C3: a suspension after the first assignment.
InitAssignClientOnly(id) ==
    [cosmos_client |-> id, database |-> None, container |-> None]

\* Fault injection for C5: the handles are assigned only after the
\* verification read, so they are still unset while it is in flight.
InitAssignNothing(id) ==
    [cosmos_client |-> None, database |-> None, container |-> None]

\* _initialize_cosmos_client: the three assignments, which no await separates
InitAssign(id) ==
    [cosmos_client |-> id, database |-> id, container |-> id]

\* ----------------------------------------------------------------- actions
\* A request reaches a handler (stdio) or a route (HTTP) and takes the
\* lowest free slot.  HTTP requests of a server started by main() exist
\* only once uvicorn serves.
Arrive(i, via, in, body) ==
    /\ req[i].pc = "idle"
    /\ \A j \in ReqIds : j < i => req[j].pc # "idle"
    /\ \/ host = "embedded"
       \/ host = "main" /\ runPc = "serving" /\ via = "http"
    /\ req' = [req EXCEPT ![i] =
                 [IdleReq EXCEPT !.pc = "recv", !.via = via,
                                 !.op = in.op, !.name = in.name,
                                 !.args = in.args, !.body = body]]
    /\ UNCHANGED <<host, config, cosmos_client, database, container, clients,
                   verified, runPc, runBuilt, docs, deleteDone>>

\* Any request; the body of a POST may fail to parse (the tool name plays
\* no part in that, so one name carries the malformed bodies).
Receive(i) ==
    /\ Cardinality({j \in ReqIds : req[j].pc # "idle"}) < MaxOverlap
    /\ \E via \in {"stdio", "http"} :
         \E in \in Inputs(via) :
            \E body \in (IF via = "http" /\ in.name = "no_such_tool"
                         THEN {"json", "malformed"} ELSE {"json"}) :
                Arrive(i, via, in, body)

\* One well-formed request per handler and route that goes through the
\* lazy initialization (list_tools does not).
ReceiveConnector(i) ==
    \E via \in {"stdio", "http"} :
        \E in \in ConnectorInputs(via) :
            Arrive(i, via, in, "json")

\* call_tool: `body = await request.json()` raises inside the try
BadBody(i) ==
    /\ req[i].pc = "recv"
    /\ req[i].body = "malformed"
    /\ req' = [req EXCEPT ![i] = Fail(@, "body", "JSONDecodeError", "bad_body")]
    /\ UNCHANGED <<host, config, cosmos_client, database, container, clients,
                   verified, runPc, runBuilt, docs, deleteDone>>

\* handle_list_tools / list_tools: the catalog is built from literals and
\* returned at once; the connector is neither read nor initialized.
ListTools(i) ==
    /\ req[i].pc = "recv"
    /\ req[i].op = "list_tools"
    /\ req' = [req EXCEPT ![i] =
                 [Succeed(req[i], "tools") EXCEPT
                    !.catalog = IF req[i].via = "stdio"
                                THEN handle_list_tools ELSE list_tools]]
    /\ UNCHANGED <<host, config, cosmos_client, database, container, clients,
                   verified, runPc, runBuilt, docs, deleteDone>>

\* The handle is set: the handler goes straight to its work.
SkipInit(i) ==
    /\ req[i].pc = "recv"
    /\ req[i].body = "json"
    /\ req[i].op # "list_tools"
    /\ ~NeedsInit(cosmos_client)
    /\ req' = [req EXCEPT ![i] = Begin(@)]
    /\ UNCHANGED <<host, config, cosmos_client, database, container, clients,
                   verified, runPc, runBuilt, docs, deleteDone>>

\* The handle is unset: _initialize_cosmos_client constructs the client,
\* sets the three handles and suspends in `await self.database.read()`.
InitConstruct(i) ==
    /\ req[i].pc = "recv"
    /\ req[i].body = "json"
    /\ req[i].op # "list_tools"
    /\ NeedsInit(cosmos_client)
    /\ clients < MaxClients
    /\ clients' = clients + 1
    /\ cosmos_client' = InitAssign(clients').cosmos_client
    /\ database' = InitAssign(clients').database
    /\ container' = InitAssign(clients').container
    /\ req' = [req EXCEPT ![i] = [@ EXCEPT !.pc = "verify",
                                           !.sawUnset = (cosmos_client = None),
                                           !.built = TRUE]]
    /\ UNCHANGED <<host, config, verified, runPc, runBuilt, docs, deleteDone>>

\* The handle is unset and CosmosClient(...) raises: nothing is assigned.
InitConstructFail(i) ==
    /\ req[i].pc = "recv"
    /\ req[i].body = "json"
    /\ req[i].op # "list_tools"
    /\ NeedsInit(cosmos_client)
    /\ req' = [req EXCEPT ![i] =
                 [Fail(@, "init", "Exception", "none")
                    EXCEPT !.sawUnset = (cosmos_client = None),
                           !.initFault = "construct"]]
    /\ UNCHANGED <<host, config, cosmos_client, database, container, clients,
                   verified, runPc, runBuilt, docs, deleteDone>>

\* `await self.database.read()` of the initialization completes.
VerifyDone(i) ==
    /\ req[i].pc = "verify"
    /\ \E ok \in BOOLEAN :
         IF ok
         THEN /\ verified' = TRUE
              /\ req' = [req EXCEPT ![i] = Begin(@)]
         ELSE /\ verified' = verified
              /\ req' = [req EXCEPT ![i] =
                           [Fail(@, "init", "CosmosHttpResponseError", "none")
                              EXCEPT !.initFault = "verify"]]
    /\ UNCHANGED <<host, config, cosmos_client, database, container, clients,
                   runPc, runBuilt, docs, deleteDone>>

\* The first awaited database call of a handler completes.
OpDone(i) ==
    /\ req[i].pc = "op1"
    /\ \E ok \in BOOLEAN :
         req' = [req EXCEPT ![i] =
            CASE @.op = "call_tool" /\ @.name = "query_documents" ->
                    IF ok THEN Succeed(@, "documents")
                    ELSE Fail(@, "dispatch", "CosmosHttpResponseError", "db")
              [] @.op = "call_tool" /\ @.name = "read_document" ->
                    IF ~ok
                    THEN Fail(@, "dispatch", "CosmosHttpResponseError", "db")
                    ELSE IF <<@.args.document_id, @.args.partition_key>>
                               \in docs
                         THEN Succeed(@, "found")
                         ELSE Fail(@, "dispatch",
                                   "CosmosResourceNotFoundError", "not_found")
              [] @.op = "call_tool" ->
                    \* get_container_statistics: container.read() is done
                    IF ok
                    THEN [@ EXCEPT !.pc = "op2",
                                   !.issued = @ \cup {"query_items"}]
                    ELSE StatsOnFailure(@)
              [] @.op = "read_resource" ->
                    IF ok THEN Succeed(@, "content")
                    ELSE Fail(@, "dispatch", "CosmosHttpResponseError", "db")
              [] OTHER ->
                    IF ok THEN Succeed(@, "healthy")
                    ELSE Fail(@, "dispatch", "CosmosHttpResponseError", "db")]
    /\ UNCHANGED <<host, config, cosmos_client, database, container, clients,
                   verified, runPc, runBuilt, docs, deleteDone>>

\* get_container_statistics: the count query completes.
CountDone(i) ==
    /\ req[i].pc = "op2"
    /\ \E ok \in BOOLEAN :
         req' = [req EXCEPT ![i] =
                   IF ok THEN Succeed(@, "statistics") ELSE StatsOnFailure(@)]
    /\ UNCHANGED <<host, config, cosmos_client, database, container, clients,
                   verified, runPc, runBuilt, docs, deleteDone>>

\* The response (or the exception) reaches the caller.
Deliver(i) ==
    /\ req[i].pc = "done"
    /\ deleteDone' =
         IF /\ req[i].op = "call_tool" /\ req[i].name = "delete_document"
            /\ req[i].initFault = "none"
         THEN deleteDone \cup
                {<<req[i].args.document_id, req[i].args.partition_key>>}
         ELSE deleteDone
    /\ req' = [req EXCEPT ![i] = IdleReq]
    /\ UNCHANGED <<host, config, cosmos_client, database, container, clients,
                   verified, runPc, runBuilt, docs>>

\* run(): the configuration check raises ValueError.
RunValidateFail ==
    /\ host = "main"
    /\ runPc = "idle"
    /\ ~ConfigValid(config)
    /\ runPc' = "failed"
    /\ UNCHANGED <<host, config, cosmos_client, database, container, clients,
                   verified, runBuilt, docs, deleteDone, req>>

\* run(): the configuration is complete and _initialize_cosmos_client
\* (called without looking at the handle) constructs the client.
RunConstruct ==
    /\ host = "main"
    /\ runPc = "idle"
    /\ ConfigValid(config)
    /\ clients < MaxClients
    /\ clients' = clients + 1
    /\ runBuilt' = runBuilt + 1
    /\ cosmos_client' = InitAssign(clients').cosmos_client
    /\ database' = InitAssign(clients').database
    /\ container' = InitAssign(clients').container
    /\ runPc' = "verify"
    /\ UNCHANGED <<host, config, verified, docs, deleteDone, req>>

\* run(): CosmosClient(...) raises and run() ends with the exception.
RunConstructFail ==
    /\ host = "main"
    /\ runPc = "idle"
    /\ ConfigValid(config)
    /\ runPc' = "failed"
    /\ UNCHANGED <<host, config, cosmos_client, database, container, clients,
                   verified, runBuilt, docs, deleteDone, req>>

\* run(): the verification read completes; only then uvicorn is started.
RunVerifyDone ==
    /\ runPc = "verify"
    /\ \E ok \in BOOLEAN :
         /\ verified' = (verified \/ ok)
         /\ runPc' = IF ok THEN "serving" ELSE "failed"
    /\ UNCHANGED <<host, config, cosmos_client, database, container, clients,
                   runBuilt, docs, deleteDone, req>>

Next ==
    \/ \E i \in ReqIds : Receive(i)
    \/ \E i \in ReqIds : BadBody(i)
    \/ \E i \in ReqIds : ListTools(i)
    \/ \E i \in ReqIds : SkipInit(i)
    \/ \E i \in ReqIds : InitConstruct(i)
    \/ \E i \in ReqIds : InitConstructFail(i)
    \/ \E i \in ReqIds : VerifyDone(i)
    \/ \E i \in ReqIds : OpDone(i)
    \/ \E i \in ReqIds : CountDone(i)
    \/ \E i \in ReqIds : Deliver(i)
    \/ RunValidateFail
    \/ RunConstruct
    \/ RunConstructFail
    \/ RunVerifyDone

Spec == Init /\ [][Next]_vars

\* The connector under requests of the three kinds only.
NextConnector ==
    \/ \E i \in ReqIds : ReceiveConnector(i)
    \/ \E i \in ReqIds : SkipInit(i)
    \/ \E i \in ReqIds : InitConstruct(i)
    \/ \E i \in ReqIds : InitConstructFail(i)
    \/ \E i \in ReqIds : VerifyDone(i)
    \/ \E i \in ReqIds : OpDone(i)
    \/ \E i \in ReqIds : CountDone(i)
    \/ \E i \in ReqIds : Deliver(i)
    \/ RunValidateFail
    \/ RunConstruct
    \/ RunConstructFail
    \/ RunVerifyDone

SpecConnector == Init /\ [][NextConnector]_vars

\* ================================================================== claims
Done(i) == req[i].pc = "done"

ToolCall(i) == req[i].op = "call_tool" /\ req[i].body = "json"

\* The request went through an initialization attempt of its own.
Attempted(r) == r.built \/ r.initFault # "none"

\* ---------------------------------------------------------------------- C1
\* C1: a call_tool whose tool name is not in the Tool Catalog ends, in every
\* connector state, with an error result returned to the caller (a text
\* item in the stdio handler, an error payload in the HTTP route); it is
\* never an exception raised to the transport layer.
C1_UnknownToolReturnsError ==
    \A i \in ReqIds :
        (Done(i) /\ req[i].op = "call_tool"
                 /\ req[i].name \notin ToolCatalog(req[i].via))
            => req[i].resp.shape = "error"

C3_HandlesAllOrNone ==
    \/ cosmos_client = None /\ database = None /\ container = None
    \/ cosmos_client # None /\ database = cosmos_client
                            /\ container = cosmos_client

\* a handler runs after an initialization whose verification read failed
C3_Witness ==
    \E i, j \in ReqIds :
        /\ i # j
        /\ Done(i) /\ req[i].initFault = "verify"
        /\ req[j].pc \in {"op1", "op2"}
        /\ container # None

\* ---------------------------------------------------------------------- C4
\* C4: once the client handle is set no step changes a handle or constructs
\* a client, and a request goes through an initialization attempt only in a
\* step that starts with the client handle unset.
C4_EnsureReadyIdempotent ==
    [][/\ cosmos_client # None =>
            (handles' = handles /\ clients' = clients)
       /\ \A i \in ReqIds :
            (Attempted(req'[i]) /\ ~Attempted(req[i]))
                => cosmos_client = None]_vars

\* a request found the connector initialized and completed without any
\* initialization of its own
C4_Witness ==
    \E i \in ReqIds :
        /\ Done(i) /\ req[i].body = "json"
        /\ ~Attempted(req[i]) /\ ~req[i].sawUnset
        /\ cosmos_client # None /\ clients = 1

\* ---------------------------------------------------------------------- C5
\* C5 as stated, for the window it speaks of: a first request that reaches
\* its "is it set" check while another request's initialization is still in
\* flight also observes "not yet initialized" (and so constructs a client
\* of its own).
C5_SecondRequestAlsoInitializes ==
    [][\A i, j \in ReqIds :
         (/\ i # j
          /\ req[i].pc = "verify"
          /\ req[j].pc = "recv" /\ req[j].body = "json"
          /\ req'[j].pc # "recv")
            => req'[j].sawUnset]_vars

\* C5 amended: there is no double-construction window.  While a request's
\* initialization is in flight the client handle is already set, no two
\* requests in flight have both constructed a client, and at most one
\* client is ever constructed.
C5_AtMostOneConstruction ==
    /\ clients <= 1
    /\ \A i \in ReqIds : req[i].pc = "verify" => cosmos_client # None
    /\ \A i, j \in ReqIds : (req[i].built /\ req[j].built) => i = j

\* the second request skipped initialization while the first one's
\* verification read was still in flight
C5_Witness ==
    \E i, j \in ReqIds :
        /\ i # j
        /\ req[i].pc = "verify" /\ req[i].sawUnset /\ req[i].built
        /\ req[j].pc \in {"op1", "done"} /\ req[j].body = "json"
        /\ ~req[j].sawUnset /\ ~req[j].built

\* ---------------------------------------------------------------------- C6
MissingRequired(r) ==
    \/ r.name = "query_documents" /\ r.args.query = Absent
    \/ r.name = "read_document"
         /\ (r.args.document_id = 0 \/ r.args.partition_key = Absent)

\* C6: a query_documents call without `query`, or a read_document call
\* without `document_id` or `partition_key`, fails with an
\* InvalidArgumentError and issues no query_items or read_item call (stated
\* for the calls whose lazy initialization did not fail).
C6_MissingArgumentIsInvalidArgument ==
    \A i \in ReqIds :
        (Done(i) /\ ToolCall(i) /\ MissingRequired(req[i])
                 /\ req[i].initFault = "none")
            => /\ req[i].resp.exc = "InvalidArgumentError"
               /\ req[i].issued \cap {"query_items", "read_item"} = {}

\* ---------------------------------------------------------------------- C7
UnknownUri(r) ==
    r.op = "read_resource" /\ UriStr(r) \notin ResourceCatalog(r.via)

\* C7 as stated: every read_resource of a URI other than the three
\* recognized ones fails with the unknown-URI error and issues no database
\* read or query.
C7_UnknownUriIsNotFound ==
    \A i \in ReqIds :
        (Done(i) /\ UnknownUri(req[i]))
            => /\ req[i].fault = "unknown_uri"
               /\ req[i].resp.shape # "ok"
               /\ req[i].issued = {}

\* C7 amended: only the three recognized URIs, matched exactly, lead to a
\* database call, each to its own; a read_resource of any other URI issues
\* none and fails: with the unknown-URI error (raised by the stdio handler,
\* HTTP 500 from the route) when its lazy initialization did not fail, and
\* with the initialization error otherwise.
C7_UnknownUriFailsOnceReady ==
    \A i \in ReqIds :
        /\ (req[i].op = "read_resource" /\ req[i].issued # {}) =>
              /\ UriStr(req[i]) \in ResourceCatalog(req[i].via)
              /\ req[i].issued =
                   {CASE UriStr(req[i]) = "cosmosdb://database" ->
                            "database.read"
                      [] UriStr(req[i]) = "cosmosdb://container" ->
                            "container.read"
                      [] OTHER -> "query_items"}
        /\ (Done(i) /\ UnknownUri(req[i])) =>
              /\ req[i].issued = {}
              /\ req[i].resp.shape =
                   (IF req[i].via = "stdio" THEN "raised" ELSE "error")
              /\ req[i].via = "http" => req[i].resp.status = 500
              /\ req[i].initFault = "none" =>
                    (req[i].fault = "unknown_uri"
                        /\ req[i].resp.exc = "ValueError")
              /\ req[i].initFault # "none" => req[i].fault = "none"

\* an unknown URI read through the route on a connector that an earlier
\* request initialized
C7_Witness ==
    \E i \in ReqIds :
        /\ Done(i) /\ UnknownUri(req[i]) /\ req[i].via = "http"
        /\ ~req[i].sawUnset /\ verified
        /\ req[i].fault = "unknown_uri" /\ req[i].resp.status = 500

\* ---------------------------------------------------------------------- C8
HttpToolCall(i) == req[i].op = "call_tool" /\ req[i].via = "http"

\* C8 as stated: a POST /mcp/tools/{name} in which something failed
\* (unknown tool, missing argument, initialization, database) answers 500
\* with an error body, and every other one answers 200 with a result.
C8_FailureIff500 ==
    \A i \in ReqIds :
        (Done(i) /\ HttpToolCall(i)) =>
            IF req[i].initFault # "none" \/ req[i].fault # "none"
            THEN req[i].resp.status = 500 /\ req[i].resp.shape = "error"
            ELSE req[i].resp.status = 200 /\ req[i].resp.shape = "ok"

\* C8 amended: every POST /mcp/tools/{name} ends in exactly one of the two
\* responses; it is the 500 error body when the body is malformed, the tool
\* is unknown, an argument is missing, the initialization fails, or the
\* database call of query_documents or read_document fails; it is the 200
\* result otherwise, which includes a get_container_statistics call whose
\* container read or count query failed.
C8_ExactlyOneResponse ==
    \A i \in ReqIds :
        (Done(i) /\ HttpToolCall(i)) =>
            IF \/ req[i].initFault # "none"
               \/ /\ req[i].fault # "none"
                  /\ ~(req[i].name = "get_container_statistics"
                          /\ req[i].fault = "db")
            THEN /\ req[i].resp.status = 500 /\ req[i].resp.shape = "error"
                 /\ req[i].resp.exc # "None"
            ELSE /\ req[i].resp.status = 200 /\ req[i].resp.shape = "ok"
                 /\ req[i].resp.exc = "None"

\* the count query of get_container_statistics failed and the route
\* answered 200
C8_Witness ==
    \E i \in ReqIds :
        /\ Done(i) /\ HttpToolCall(i)
        /\ req[i].name = "get_container_statistics"
        /\ req[i].issued = {"container.read", "query_items"}
        /\ req[i].fault = "db"
        /\ req[i].resp.status = 200 /\ req[i].resp.shape = "ok"

\* ---------------------------------------------------------------------- C9
\* C9: in a process started by main(), run() validates, then connects, then
\* serves.  With any of the four settings empty no client is constructed
\* and nothing is served; the server serves only after run()'s own
\* verification read succeeded; no request is handled before that; and a
\* failed run() stays failed.
C9_StartupOrder ==
    /\ [](host = "main" =>
            /\ (\E f \in ConfigFields : config[f] = "") =>
                  (clients = 0 /\ runPc \in {"idle", "failed"})
            /\ runPc = "serving" =>
                  (runBuilt = 1 /\ verified /\ cosmos_client # None)
            /\ runPc # "serving" => \A i \in ReqIds : req[i].pc = "idle")
    /\ [][runPc = "failed" => runPc' = "failed"]_vars

C9_Witness ==
    /\ host = "main"
    /\ \E f \in ConfigFields : config[f] = ""
    /\ \E f \in ConfigFields : config[f] # ""
    /\ runPc = "failed"
    /\ clients = 0

\* --------------------------------------------------------------------- C10
\* C10: a read_document call made after a delete_document call on the same
\* id and partition key has returned fails with the not-found error (stated
\* for the reads that neither an initialization failure nor a database
\* failure interrupted).
C10_ReadAfterDeleteNotFound ==
    \A i \in ReqIds :
        (Done(i) /\ ToolCall(i) /\ req[i].name = "read_document"
                 /\ req[i].afterDelete
                 /\ req[i].initFault = "none" /\ req[i].fault # "db")
            => req[i].fault = "not_found"

\* --------------------------------------------------------------------- C11
\* The calls made through the container handle.
ContainerCalls == {"query_items", "read_item", "container.read"}

\* C11: whenever a request issues a data operation through the container
\* handle (query_items, read_item, container.read), a verification read of
\* the initialization has already completed successfully.
C11_DataOnlyAfterVerification ==
    [][\A i \in ReqIds :
         ((req'[i].issued \ req[i].issued) \cap ContainerCalls # {})
            => verified']_vars

\* --------------------------------------------------------------------- C12
NoDuplicates(seq) == Len(seq) = Cardinality(Range(seq))

ListToolsCall(i) == req[i].op = "list_tools"

\* C12: the catalog a list_tools call returns has no duplicate names, is
\* the same set of names in the stdio and in the HTTP variant, and is
\* exactly the set of names the dispatcher of its transport accepts,
\* whatever state the connector is in; and a tool call that gets to the
\* dispatcher is turned down as unknown exactly when its name is not in
\* the catalog of its transport.
C12_CatalogAgreesWithDispatcher ==
    \A i \in ReqIds :
        Done(i) =>
            /\ ListToolsCall(i) =>
                /\ NoDuplicates(req[i].catalog)
                /\ \A v \in {"stdio", "http"} :
                       Range(req[i].catalog) = ToolCatalog(v)
                /\ Range(req[i].catalog) = Accepted(req[i].via)
            /\ (ToolCall(i) /\ req[i].initFault = "none") =>
                  (req[i].fault = "unknown_tool"
                     <=> req[i].name \notin ToolCatalog(req[i].via))

\* GET /mcp/tools answered on a connector whose verification read failed.
C12_Witness ==
    \E i \in ReqIds :
        /\ Done(i)
        /\ ListToolsCall(i)
        /\ req[i].via = "http"
        /\ Len(req[i].catalog) = 3
        /\ cosmos_client # None
        /\ ~verified

====
